---- MODULE Spec2Model ----
(***************************************************************************)
(* Model of the stock pullback backtest (src/app.py, src/verify_logic.py). *)
(*                                                                         *)
(* Dates are day numbers counted from 2023-01-01, the default start date   *)
(* of the sidebar (a Sunday).  A daily bar carries the two columns the     *)
(* backtest reads, High and Close.  Prices are integers; the pullback      *)
(* ratio is kept as the exact fraction (C - H) / H.                        *)
(*                                                                         *)
(* Spec        : one run of the Streamlit script in a fresh session, one   *)
(*               section of the script per action.                         *)
(* SpecSession : a sequence of script runs sharing st.session_state.       *)
(* SpecVP      : the volume profile binning of the display section, on its *)
(*               own price and volume series.                              *)
(***************************************************************************)
EXTENDS Integers, Sequences, FiniteSets

VARIABLES
    market,         \* the daily history the data source holds for the symbol
    pc,             \* position in the script
    submit_btn,     \* the "Run Backtest" button of this script run
    lookback_days,  \* the "Lookback Days" widget
    df_daily,       \* the fetched frame of this run
    week_end,       \* loop variable of the weekly loop (label of the next bin)
    window_df,      \* the lookback window of the last processed week
    results,        \* the result rows of this run
    today,          \* the date read by the incomplete-week filter
    session,        \* st.session_state
    shown,          \* what the display section rendered
    price_data,     \* volume profile: the price series
    volume_data,    \* volume profile: the parallel volume series
    indices,        \* volume profile: np.digitize's result
    vp_volumes,     \* volume profile: the volume summed per bin
    binned,         \* volume profile: the bin each observation was added to
    vp_pc           \* volume profile: position in the binning

vars == <<market, pc, submit_btn, lookback_days, df_daily, week_end, window_df,
          results, today, session, shown,
          price_data, volume_data, indices, vp_volumes, binned, vp_pc>>

pipeVars == <<market, pc, submit_btn, lookback_days, df_daily, week_end,
              window_df, results, today, session, shown>>

vpVars == <<price_data, volume_data, indices, vp_volumes, binned, vp_pc>>

--------------------------------------------------------------------------
(* Bounds of the model. *)

\* Bar dates and "today" range over the days 0..MaxDay.
MaxDay == 9

\* A market history has at most MaxBars daily bars.
MaxBars == 3

\* A market history of the multi-run specification has at most
\* MaxSessionBars daily bars.
MaxSessionBars == 2

\* Volume profile inputs: 1..MaxObs observations, prices 1..MaxPrice,
\* volumes 0..MaxVolume.
MaxObs == 3

MaxPrice == 3

MaxVolume == 2

(* Program constants. *)

\* datetime(2023, 1, 1).weekday(): day 0 is a Sunday (Monday = 0).
EpochWeekday == 6

\* number_input("Lookback Days", min_value=1, ..., value=8)
MinLookback == 1

DefaultLookback == 8

\* np.linspace(price_min, price_max, 50)
NumEdges == 50

Days == 0..MaxDay

Lookbacks == {MinLookback, DefaultLookback}

\* The price levels of the bars: a zero and a positive high, and closes
\* below and above the positive high.
Highs == {0, 2}

Closes == {1, 3}

\* pd.NA, an unbound local, a missing session key: the empty sequence;
\* a present value v is <<v>>.
NA == <<>>

Some(v) == <<v>>

--------------------------------------------------------------------------
(* Calendar. *)

\* date.weekday(): Monday = 0 ... Sunday = 6.
weekday(d) == (d + EpochWeekday) % 7

\* date.isocalendar()[:2], the ISO (year, week): 2023-01-01 is (2022, 52),
\* the Monday 2023-01-02 starts (2023, 1).
isocalendar(d) ==
    LET k == (d + EpochWeekday) \div 7
    IN  IF k = 0 THEN <<2022, 52>> ELSE <<2023, k>>

\* pd.Grouper(freq='W'): weekly bins anchored on Sunday, closed and labelled
\* on the right; the label of the bin that holds day d.
WeekLabel(d) == d + (6 - weekday(d))

--------------------------------------------------------------------------
(* The daily series. *)

RECURSIVE SortedDates(_)
SortedDates(S) ==
    IF S = {} THEN <<>>
    ELSE LET m == CHOOSE x \in S : \A y \in S : x <= y
         IN  <<m>> \o SortedDates(S \ {m})

\* The frame yfinance returns: ascending unique dates.
MakeSeries(S, hs, cs) ==
    LET ds == SortedDates(S)
    IN  [i \in 1..Len(ds) |-> [date |-> ds[i], High |-> hs[ds[i]], Close |-> cs[ds[i]]]]

DateSets(n) == {S \in SUBSET Days : Cardinality(S) <= n}

--------------------------------------------------------------------------
(* Weekly grouping, lookback window, pullback ratio. *)

\* The rows of df_daily in the weekly bin labelled w: (w - 7, w].
Group(df, w) ==
    LET InBin(b) == b.date > w - 7 /\ b.date <= w
    IN  SelectSeq(df, InBin)

TRowFirst(group) == group[1]

\* t_row = group.iloc[-1]
TRow(group) == group[Len(group)]

MaskOpenStart(d, window_start_date, window_end_date) ==
    d > window_start_date /\ d <= window_end_date

\* mask = (index >= window_start_date) & (index <= window_end_date)
Mask(d, window_start_date, window_end_date) ==
    d >= window_start_date /\ d <= window_end_date

\* window_df = df_daily.loc[mask]
Window(df, window_start_date, window_end_date) ==
    LET InMask(b) == Mask(b.date, window_start_date, window_end_date)
    IN  SelectSeq(df, InMask)

RECURSIVE ArgMaxLast(_, _, _)
ArgMaxLast(w, i, best) ==
    IF i > Len(w) THEN best
    ELSE ArgMaxLast(w, i + 1, IF w[i].High >= w[best].High THEN i ELSE best)

\* Series.idxmax(): the position of the first occurrence of the maximum,
\* scanning from position i with the best position so far.
RECURSIVE ArgMax(_, _, _)
ArgMax(w, i, best) ==
    IF i > Len(w) THEN best
    ELSE ArgMax(w, i + 1, IF w[i].High > w[best].High THEN i ELSE best)

\* window_df['High'].max()
HighMax(w) == w[ArgMax(w, 1, 1)].High

\* window_df['High'].idxmax().date()
HighIdxMax(w) == w[ArgMax(w, 1, 1)].date

RatioInverted(c_price, h_price) ==
    IF h_price # 0
    THEN Some([num |-> h_price - c_price, den |-> h_price])
    ELSE NA

RatioGuardsClose(c_price, h_price) ==
    IF c_price # 0
    THEN Some([num |-> c_price - h_price, den |-> h_price])
    ELSE NA

\* ratio = (c_price - h_price) / h_price if h_price != 0 else pd.NA,
\* as the exact fraction num / den.
Ratio(c_price, h_price) ==
    IF h_price # 0
    THEN Some([num |-> c_price - h_price, den |-> h_price])
    ELSE NA

\* One iteration of the weekly loop for a non-empty group: the appended row.
ResultRow(df, group, L) ==
    LET t_row == TRow(group)
        t_date == t_row.date
        c_price == t_row.Close
        window_end_date == t_date - 1
        window_start_date == t_date - L
        w == Window(df, window_start_date, window_end_date)
    IN  [WeekEnding      |-> t_date,
         CloseC          |-> c_price,
         WindowMaxH      |-> IF w = <<>> THEN NA ELSE Some(HighMax(w)),
         WindowMaxDate   |-> IF w = <<>> THEN NA ELSE Some(HighIdxMax(w)),
         WindowStartDate |-> window_start_date,
         PullbackRatio   |-> IF w = <<>> THEN NA ELSE Ratio(c_price, HighMax(w))]

\* The window_df local left by that iteration.
ResultWindow(df, group, L) ==
    LET t_date == TRow(group).date
    IN  Window(df, t_date - L, t_date - 1)

--------------------------------------------------------------------------
(* Incomplete-week filter. *)

IsRecentInclusive(now, last_t_date) == now - last_t_date <= 7

\* is_recent = (today - last_t_date).days < 7
IsRecent(now, last_t_date) == now - last_t_date < 7

IsIncompleteDayWithFriday(last_t_date) == weekday(last_t_date) < 5

\* is_incomplete_day = last_t_date.weekday() < 4
IsIncompleteDay(last_t_date) == weekday(last_t_date) < 4

\* if results: ... if is_same_week or (is_recent and is_incomplete_day): results.pop()
IncompleteWeekFilter(rs, now) ==
    IF rs = <<>> THEN rs
    ELSE LET last_t_date == rs[Len(rs)].WeekEnding
             is_same_week == isocalendar(last_t_date) = isocalendar(now)
         IN  IF is_same_week \/ (IsRecent(now, last_t_date) /\ IsIncompleteDay(last_t_date))
             THEN SubSeq(rs, 1, Len(rs) - 1)
             ELSE rs

--------------------------------------------------------------------------
(* The script. *)

\* The state of a fresh session before the first script run.
FreshSession ==
    /\ pc = "idle"
    /\ submit_btn = FALSE
    /\ lookback_days = DefaultLookback
    /\ df_daily = <<>>
    /\ week_end = NA
    /\ window_df = <<>>
    /\ results = <<>>
    /\ today = NA
    /\ session = NA
    /\ shown = [kind |-> "blank", table |-> <<>>]

\* The volume profile is not being computed.
ProfileOff ==
    /\ price_data = <<>>
    /\ volume_data = <<>>
    /\ indices = <<>>
    /\ vp_volumes = <<>>
    /\ binned = <<>>
    /\ vp_pc = "off"

Init ==
    /\ \E S \in DateSets(MaxBars) :
         \E hs \in [S -> Highs] :
           \E cs \in [S -> Closes] :
             market = MakeSeries(S, hs, cs)
    /\ FreshSession
    /\ ProfileOff

InitSession ==
    /\ \E S \in DateSets(MaxSessionBars) :
         \E hs \in [S -> Highs] :
           \E cs \in [S -> Closes] :
             market = MakeSeries(S, hs, cs)
    /\ FreshSession
    /\ ProfileOff

\* The user sets the lookback and presses "Run Backtest"; yf.download
\* returns the history.
FetchData(L) ==
    /\ pc = "idle"
    /\ submit_btn' = TRUE
    /\ lookback_days' = L
    /\ df_daily' = market
    /\ pc' = "fetched"
    /\ UNCHANGED <<market, week_end, window_df, results, today, session, shown>>
    /\ UNCHANGED vpVars

\* The same, but yf.download raises (or returns nothing): df_daily is empty.
FetchFails(L) ==
    /\ pc = "idle"
    /\ submit_btn' = TRUE
    /\ lookback_days' = L
    /\ df_daily' = <<>>
    /\ pc' = "fetched"
    /\ UNCHANGED <<market, week_end, window_df, results, today, session, shown>>
    /\ UNCHANGED vpVars

\* A rerun of the script without the button (a chart selection).
Rerun ==
    /\ pc = "idle"
    /\ submit_btn' = FALSE
    /\ pc' = "display"
    /\ UNCHANGED <<market, lookback_days, df_daily, week_end, window_df,
                   results, today, session, shown>>
    /\ UNCHANGED vpVars

NoDataClearsSession ==
    /\ pc = "fetched"
    /\ df_daily = <<>>
    /\ session' = Some([results_df |-> <<>>, df_daily |-> df_daily,
                        symbol |-> "SPY", lookback_days |-> lookback_days])
    /\ pc' = "display"
    /\ UNCHANGED <<market, submit_btn, lookback_days, df_daily, week_end,
                   window_df, results, today, shown>>
    /\ UNCHANGED vpVars

\* if df_daily.empty: the error messages, nothing else.
NoData ==
    /\ pc = "fetched"
    /\ df_daily = <<>>
    /\ pc' = "display"
    /\ UNCHANGED <<market, submit_btn, lookback_days, df_daily, week_end,
                   window_df, results, today, session, shown>>
    /\ UNCHANGED vpVars

\* else: weekly_groups = df_daily.groupby(pd.Grouper(freq='W')); results = []
StartGrouping ==
    /\ pc = "fetched"
    /\ df_daily # <<>>
    /\ results' = <<>>
    /\ week_end' = Some(WeekLabel(df_daily[1].date))
    /\ pc' = "loop"
    /\ UNCHANGED <<market, submit_btn, lookback_days, df_daily, window_df,
                   today, session, shown>>
    /\ UNCHANGED vpVars

\* for week_end, group in weekly_groups: if group.empty: continue
SkipEmptyWeek ==
    /\ pc = "loop"
    /\ Group(df_daily, week_end[1]) = <<>>
    /\ week_end' = Some(week_end[1] + 7)
    /\ UNCHANGED <<market, pc, submit_btn, lookback_days, df_daily, window_df,
                   results, today, session, shown>>
    /\ UNCHANGED vpVars

\* The loop body for a non-empty group; the loop ends after the bin that
\* holds the last row of df_daily.
ProcessWeek ==
    /\ pc = "loop"
    /\ LET group == Group(df_daily, week_end[1])
       IN  /\ group # <<>>
           /\ results' = Append(results, ResultRow(df_daily, group, lookback_days))
           /\ window_df' = ResultWindow(df_daily, group, lookback_days)
    /\ IF week_end[1] = WeekLabel(df_daily[Len(df_daily)].date)
       THEN pc' = "filter" /\ week_end' = week_end
       ELSE pc' = "loop" /\ week_end' = Some(week_end[1] + 7)
    /\ UNCHANGED <<market, submit_btn, lookback_days, df_daily, today, session, shown>>
    /\ UNCHANGED vpVars

\* today = datetime.now().date(); the last row is popped when its week is
\* incomplete.  The fetched history ends no later than today.
FilterIncompleteWeek(now) ==
    /\ pc = "filter"
    /\ now >= df_daily[Len(df_daily)].date
    /\ today' = Some(now)
    /\ results' = IncompleteWeekFilter(results, now)
    /\ pc' = "store"
    /\ UNCHANGED <<market, submit_btn, lookback_days, df_daily, week_end,
                   window_df, session, shown>>
    /\ UNCHANGED vpVars

\* st.session_state[...] = ...
StoreSession ==
    /\ pc = "store"
    /\ session' = Some([results_df |-> results, df_daily |-> df_daily,
                        symbol |-> "SPY", lookback_days |-> lookback_days])
    /\ pc' = "display"
    /\ UNCHANGED <<market, submit_btn, lookback_days, df_daily, week_end,
                   window_df, results, today, shown>>
    /\ UNCHANGED vpVars

\* The display section, and the end of the script run (its locals die).
Display ==
    /\ pc = "display"
    /\ shown' = IF session # NA /\ session[1].results_df # <<>>
                THEN [kind |-> "table", table |-> session[1].results_df]
                ELSE IF session # NA
                     THEN [kind |-> "warning", table |-> <<>>]
                     ELSE [kind |-> "blank", table |-> <<>>]
    /\ df_daily' = <<>>
    /\ week_end' = NA
    /\ window_df' = <<>>
    /\ results' = <<>>
    /\ today' = NA
    /\ pc' = "done"
    /\ UNCHANGED <<market, submit_btn, lookback_days, session>>
    /\ UNCHANGED vpVars

\* The script has ended; the page waits for the next interaction.
AwaitInteraction ==
    /\ pc = "done"
    /\ pc' = "idle"
    /\ UNCHANGED <<market, submit_btn, lookback_days, df_daily, week_end,
                   window_df, results, today, session, shown>>
    /\ UNCHANGED vpVars

Next ==
    \/ \E L \in Lookbacks : FetchData(L)
    \/ \E L \in Lookbacks : FetchFails(L)
    \/ Rerun
    \/ NoData
    \/ StartGrouping
    \/ SkipEmptyWeek
    \/ ProcessWeek
    \/ \E now \in Days : FilterIncompleteWeek(now)
    \/ StoreSession
    \/ Display

Spec == Init /\ [][Next]_vars

NextSession ==
    \/ Next
    \/ AwaitInteraction

SpecSession == InitSession /\ [][NextSession]_vars

--------------------------------------------------------------------------
(* Volume profile binning of the display section. *)

RECURSIVE SeqMin(_)
\* price_data.min()
SeqMin(s) ==
    IF Len(s) = 1 THEN s[1]
    ELSE LET m == SeqMin(Tail(s)) IN IF s[1] <= m THEN s[1] ELSE m

RECURSIVE SeqMax(_)
\* price_data.max()
SeqMax(s) ==
    IF Len(s) = 1 THEN s[1]
    ELSE LET m == SeqMax(Tail(s)) IN IF s[1] >= m THEN s[1] ELSE m

\* Prices and bin edges are compared as exact rationals: both are scaled
\* by NumEdges - 1.
Scaled(x) == (NumEdges - 1) * x

\* bins = np.linspace(price_min, price_max, 50): NumEdges evenly spaced
\* edges, the first price_min and the last exactly price_max (scaled).
Bins(prices) ==
    LET price_min == SeqMin(prices)
        price_max == SeqMax(prices)
    IN  [k \in 1..NumEdges |-> Scaled(price_min) + (k - 1) * (price_max - price_min)]

\* np.digitize(x, bins), right=False on non-decreasing bins: the i with
\* bins[i-1] <= x < bins[i], that is the number of edges <= x (0 below the
\* first edge, len(bins) from the last edge on, also when all edges are equal).
Digitize(x, bins) == Cardinality({k \in DOMAIN bins : bins[k] <= Scaled(x)})

\* if 0 <= bin_idx < len(vp_volumes)
InRange(bin_idx, n) == 0 <= bin_idx /\ bin_idx < n

\* for i in range(len(price_data)): bin_idx = indices[i] - 1; if in range:
\* vp_volumes[bin_idx] += volume_data.iloc[i]
RECURSIVE Accumulate(_, _, _, _)
Accumulate(i, idx, vols, acc) ==
    IF i > Len(idx) THEN acc
    ELSE LET bin_idx == idx[i] - 1
         IN  Accumulate(i + 1, idx, vols,
                        IF InRange(bin_idx, Len(acc))
                        THEN [acc EXCEPT ![bin_idx + 1] = @ + vols[i]]
                        ELSE acc)

\* The bin (0-based) the loop added observation i to, NA when it skipped it.
BinOf(i, idx, n) ==
    LET bin_idx == idx[i] - 1
    IN  IF InRange(bin_idx, n) THEN Some(bin_idx) ELSE NA

InitVP ==
    /\ market = <<>>
    /\ FreshSession
    /\ \E n \in 1..MaxObs :
         /\ price_data \in [1..n -> 1..MaxPrice]
         /\ volume_data \in [1..n -> 0..MaxVolume]
    /\ indices = <<>>
    /\ vp_volumes = <<>>
    /\ binned = <<>>
    /\ vp_pc = "prices"

\* bins = np.linspace(...); indices = np.digitize(price_data, bins)
DigitizePrices ==
    /\ vp_pc = "prices"
    /\ indices' = [i \in DOMAIN price_data |-> Digitize(price_data[i], Bins(price_data))]
    /\ vp_pc' = "digitized"
    /\ UNCHANGED <<price_data, volume_data, vp_volumes, binned>>
    /\ UNCHANGED pipeVars

\* vp_volumes = np.zeros(len(bins)-1), then the accumulation loop.
AccumulateVolumes ==
    /\ vp_pc = "digitized"
    /\ vp_volumes' = Accumulate(1, indices, volume_data, [k \in 1..(NumEdges - 1) |-> 0])
    /\ binned' = [i \in DOMAIN indices |-> BinOf(i, indices, NumEdges - 1)]
    /\ vp_pc' = "done"
    /\ UNCHANGED <<price_data, volume_data, indices>>
    /\ UNCHANGED pipeVars

NextVP ==
    \/ DigitizePrices
    \/ AccumulateVolumes

SpecVP == InitVP /\ [][NextVP]_vars

--------------------------------------------------------------------------
(* Properties. *)

Range(s) == {s[i] : i \in DOMAIN s}

RECURSIVE SumSeq(_)
SumSeq(s) == IF s = <<>> THEN 0 ELSE s[1] + SumSeq(Tail(s))

\* The Monday-to-Sunday calendar week of day d, as a week number.
MonSunWeek(d) == (d + EpochWeekday) \div 7

\* The rows of this run describe df_daily and lookback_days.
RowsInScope == pc \in {"loop", "filter", "store", "display"}

\* The bars of df_daily in the closed calendar-day interval [T - L, T - 1]
\* of a row with reference day T.
WindowBarsOf(r) ==
    {b \in Range(df_daily) :
        r.WeekEnding - lookback_days <= b.date /\ b.date <= r.WeekEnding - 1}

\* The removal condition of the incomplete-week filter for a last row with
\* reference day d: the same week as now, or a Monday-Thursday less than 7
\* days before now.
Incomplete(d, now) ==
    \/ MonSunWeek(d) = MonSunWeek(now)
    \/ (now - d < 7 /\ weekday(d) \in 0..3)

\* C1 (SpecVP): the volumes summed per bin add up to the sum of all input
\* volumes.
C1_VolumeConserved ==
    vp_pc = "done" => SumSeq(vp_volumes) = SumSeq(volume_data)

\* C2 (Spec), as claimed: applying the incomplete-week filter a second time
\* with the same now removes no row.
C2_FilterIdempotent ==
    pc = "store" => IncompleteWeekFilter(results, today[1]) = results

\* C2 (Spec), amended: a second application of the filter with the same now
\* removes a row exactly when the first application removed the last row
\* and the new last row is a Monday-Thursday reference day less than 7 days
\* before now; it then removes exactly that row.
C2_SecondApplication ==
    pc = "store" =>
        LET weeks == {MonSunWeek(b.date) : b \in Range(df_daily)}
            removed == Len(results) < Cardinality(weeks)
            again == IncompleteWeekFilter(results, today[1])
            midweek == /\ results # <<>>
                       /\ today[1] - results[Len(results)].WeekEnding < 7
                       /\ weekday(results[Len(results)].WeekEnding) \in 0..3
        IN  /\ (again # results) <=> (removed /\ midweek)
            /\ again # results => again = SubSeq(results, 1, Len(results) - 1)

\* C2 witness: the first application removed the row of the current week and
\* a second application would remove the Thursday row before it.
C2_Witness ==
    /\ pc = "store"
    /\ results # <<>>
    /\ Len(results) < Cardinality({MonSunWeek(b.date) : b \in Range(df_daily)})
    /\ MonSunWeek(df_daily[Len(df_daily)].date) = MonSunWeek(today[1])
    /\ IncompleteWeekFilter(results, today[1]) # results

\* C3 (Spec), as claimed: window high, window high date and pullback ratio
\* of a row are absent exactly when the row's lookback window has no bar.
C3_AbsentTogether ==
    RowsInScope =>
        \A i \in DOMAIN results :
            LET r == results[i]
                empty == WindowBarsOf(r) = {}
            IN  /\ (r.WindowMaxH = NA) <=> empty
                /\ (r.WindowMaxDate = NA) <=> empty
                /\ (r.PullbackRatio = NA) <=> empty

\* C3 (Spec), amended: window high and window high date are absent exactly
\* when the lookback window has no bar; the pullback ratio is absent exactly
\* when the window has no bar or its maximum high is 0.
C3_AbsentFields ==
    RowsInScope =>
        \A i \in DOMAIN results :
            LET r == results[i]
                W == WindowBarsOf(r)
                zeroMax == /\ \E b \in W : b.High = 0
                           /\ \A b \in W : b.High <= 0
            IN  /\ (r.WindowMaxH = NA) <=> (W = {})
                /\ (r.WindowMaxDate = NA) <=> (W = {})
                /\ (r.PullbackRatio = NA) <=> (W = {} \/ zeroMax)

\* C3 witness: a row whose window is not empty and has maximum high 0: high
\* and date present, ratio absent.
C3_Witness ==
    /\ RowsInScope
    /\ \E i \in DOMAIN results :
         /\ WindowBarsOf(results[i]) # {}
         /\ results[i].WindowMaxH = Some(0)
         /\ results[i].WindowMaxDate # NA
         /\ results[i].PullbackRatio = NA

\* C4 (Spec): the filter step leaves the table as it is or removes only its
\* last row, and removes it exactly when the last row's reference day is in
\* the same ISO week as now, or is a Monday-Thursday less than 7 days
\* before now; an empty table stays empty.
C4_FilterStep ==
    [][pc = "filter" =>
         /\ IncompleteWeekFilter(<<>>, today'[1]) = <<>>
         /\ IF results = <<>>
            THEN results' = <<>>
            ELSE IF Incomplete(results[Len(results)].WeekEnding, today'[1])
                 THEN results' = SubSeq(results, 1, Len(results) - 1)
                 ELSE results' = results]_vars

\* C4 witness: the last row, a Monday-Thursday of the week before now, has
\* been removed while the rows before it are kept.
C4_Witness ==
    /\ pc = "store"
    /\ results # <<>>
    /\ Len(results) < Cardinality({MonSunWeek(b.date) : b \in Range(df_daily)})
    /\ MonSunWeek(df_daily[Len(df_daily)].date) # MonSunWeek(today[1])

\* C5 (Spec): the unfiltered table has exactly one row per Monday-to-Sunday
\* week that holds a bar, each row carries the date and close of the last
\* bar of its week, and the reference days are strictly increasing.
C5_OneRowPerWeek ==
    pc = "filter" =>
        LET weeks == {MonSunWeek(b.date) : b \in Range(df_daily)}
        IN  /\ Len(results) = Cardinality(weeks)
            /\ \A w \in weeks :
                 \E i \in DOMAIN results :
                   \E b \in Range(df_daily) :
                     /\ MonSunWeek(b.date) = w
                     /\ \A c \in Range(df_daily) :
                          MonSunWeek(c.date) = w => c.date <= b.date
                     /\ results[i].WeekEnding = b.date
                     /\ results[i].CloseC = b.Close
            /\ \A i \in DOMAIN results :
                 \A j \in DOMAIN results :
                   i < j => results[i].WeekEnding < results[j].WeekEnding

\* C5 witness: a history of three bars, two of them in one week, with a
\* week without bars in between, yields two rows.
C5_Witness ==
    /\ pc = "filter"
    /\ Len(df_daily) = 3
    /\ Len(results) = 2
    /\ MonSunWeek(results[2].WeekEnding) = MonSunWeek(results[1].WeekEnding) + 2

\* C6 (Spec): the row of the week just processed starts its window at T - L,
\* and its window holds, in date order, exactly the bars of the whole daily
\* series dated within [T - L, T - 1]; L is within 1..365.
C6_Window ==
    /\ lookback_days \in 1..365
    /\ RowsInScope =>
         \A i \in DOMAIN results :
           results[i].WindowStartDate = results[i].WeekEnding - lookback_days
    /\ (pc \in {"loop", "filter"} /\ results # <<>>) =>
         LET r == results[Len(results)]
         IN  /\ Range(window_df) = WindowBarsOf(r)
             /\ \A i \in DOMAIN window_df :
                  \A j \in DOMAIN window_df :
                    i < j => window_df[i].date < window_df[j].date

\* C6 witness: the window holds a bar of an earlier week on its first day
\* T - L, while an older bar and the reference day itself are left out.
C6_Witness ==
    /\ pc \in {"loop", "filter"}
    /\ results # <<>>
    /\ window_df # <<>>
    /\ LET T == results[Len(results)].WeekEnding
       IN  /\ window_df[1].date = T - lookback_days
           /\ MonSunWeek(window_df[1].date) < MonSunWeek(T)
           /\ \E b \in Range(df_daily) : b.date < T - lookback_days

\* C7 (SpecVP): with strictly increasing edges, every input price is added
\* to exactly one bin: bin i when e[i] <= p < e[i+1], the final bin when p
\* is the last edge.
C7_BinAssignment ==
    (vp_pc = "done" /\ SeqMin(price_data) < SeqMax(price_data)) =>
        \A i \in DOMAIN price_data :
            LET e == Bins(price_data)
                p == Scaled(price_data[i])
            IN  /\ binned[i] # NA
                /\ \/ /\ binned[i][1] \in 0..(NumEdges - 2)
                      /\ e[binned[i][1] + 1] <= p
                      /\ p < e[binned[i][1] + 2]
                   \/ /\ binned[i][1] = NumEdges - 2
                      /\ p = e[NumEdges]

\* C8 (Spec): for a row with a non-empty window, the window high is the
\* maximum high of the window's bars and the window high date is the
\* earliest date of a bar with that high.
C8_WindowMax ==
    RowsInScope =>
        \A i \in DOMAIN results :
            LET r == results[i]
                W == WindowBarsOf(r)
            IN  W # {} =>
                  /\ r.WindowMaxH # NA
                  /\ r.WindowMaxDate # NA
                  /\ \A b \in W : b.High <= r.WindowMaxH[1]
                  /\ \E b \in W : /\ b.High = r.WindowMaxH[1]
                                  /\ b.date = r.WindowMaxDate[1]
                  /\ \A b \in W : b.High = r.WindowMaxH[1] => r.WindowMaxDate[1] <= b.date

\* C8 witness: two bars of a window share the maximum high and the row
\* carries the date of the earlier one.
C8_Witness ==
    /\ RowsInScope
    /\ \E i \in DOMAIN results :
         \E b \in WindowBarsOf(results[i]) :
           \E c \in WindowBarsOf(results[i]) :
             /\ b.date < c.date
             /\ b.High = c.High
             /\ results[i].WindowMaxH = Some(b.High)
             /\ results[i].WindowMaxDate = Some(b.date)

\* C9 (Spec): for a row with a non-empty window and window high H, the
\* ratio r satisfies r * H = C - H when H is not 0, and is absent when H is 0.
C9_Ratio ==
    RowsInScope =>
        \A i \in DOMAIN results :
            LET r == results[i]
            IN  WindowBarsOf(r) # {} =>
                  /\ r.WindowMaxH # NA
                  /\ IF r.WindowMaxH[1] # 0
                     THEN /\ r.PullbackRatio # NA
                          /\ r.PullbackRatio[1].den # 0
                          /\ r.PullbackRatio[1].num * r.WindowMaxH[1]
                               = (r.CloseC - r.WindowMaxH[1]) * r.PullbackRatio[1].den
                     ELSE r.PullbackRatio = NA

\* C9 witness: a finished table with a negative ratio (close below the
\* window high) and a positive ratio (close above it).
C9_Witness ==
    /\ pc = "filter"
    /\ \E i \in DOMAIN results :
         /\ results[i].PullbackRatio # NA
         /\ results[i].CloseC < results[i].WindowMaxH[1]
         /\ results[i].PullbackRatio[1].num * results[i].PullbackRatio[1].den < 0
    /\ \E i \in DOMAIN results :
         /\ results[i].PullbackRatio # NA
         /\ results[i].CloseC > results[i].WindowMaxH[1]
         /\ results[i].PullbackRatio[1].num * results[i].PullbackRatio[1].den > 0

\* C10 (SpecSession): a run whose fetch is empty appends no row and changes
\* nothing in the session; the session changes only in the store step of a
\* run with a non-empty fetch; the display shows the table the session holds.
C10_EmptyRunKeepsSession ==
    [][/\ (pc \in {"fetched", "display"} /\ submit_btn /\ df_daily = <<>>) =>
            (results = <<>> /\ results' = <<>> /\ session' = session)
       /\ session' # session =>
            (pc = "store" /\ df_daily # <<>> /\
             session' = Some([results_df |-> results, df_daily |-> df_daily,
                              symbol |-> "SPY", lookback_days |-> lookback_days]))
       /\ pc = "display" =>
            shown' = IF session = NA THEN [kind |-> "blank", table |-> <<>>]
                     ELSE IF session[1].results_df = <<>>
                          THEN [kind |-> "warning", table |-> <<>>]
                          ELSE [kind |-> "table", table |-> session[1].results_df]]_vars

\* C10 witness: a run with an empty fetch has ended, under another lookback
\* than the one stored, and the table of the earlier run is shown.
C10_Witness ==
    /\ pc = "done"
    /\ submit_btn
    /\ session # NA
    /\ session[1].lookback_days # lookback_days
    /\ session[1].results_df # <<>>
    /\ shown = [kind |-> "table", table |-> session[1].results_df]

====
